---- MODULE Spec2Model ----
(***************************************************************************)
(* await-me-ts: createAsyncHandler (src/core.ts) and the derivatives       *)
(* valueOf / isSuccess / toResult (src/derivatives/index.ts).              *)
(*                                                                         *)
(* JavaScript values are modelled by their literals, written as strings:   *)
(* "0", "false", "''", "null", "undefined", "true", "1", an object "obj",  *)
(* and the Error objects "E404", "E401", "E500" (an Error with that code). *)
(* A returned value is a tagged tuple: <<"plain", v>> for v itself,        *)
(* <<"pair", a, b>> for the array [a, b] and <<"object", s, d, e>> for     *)
(* the object {success: s, data: d, error: e}.                             *)
(***************************************************************************)
EXTENDS Integers, Sequences, FiniteSets, TLC

VARIABLES config, inv

vars == <<config, inv>>

\* ------------------------------------------------------------------ bounds
MaxChain == 3

\* ------------------------------------------------------------ JS values
Plain(v) == <<"plain", v>>
Pair(a, b) == <<"pair", a, b>>
ResultObject(s, d, e) == <<"object", s, d, e>>

\* values the wrapped operation may resolve with
Values == {"0", "false", "''", "obj"}
\* reasons the wrapped operation may reject with
Reasons == {"E404", "E401", "E500", "0", "false", "''", "null"}

\* JavaScript ToBoolean, as used by `if (err)` and `if (!entry)`
Truthy(v) == v \notin {"0", "false", "''", "null", "undefined"}

\* ------------------------------------------------------- RETURN_STYLES
RETURN_STYLES ==
  [FALSE_STYLE |-> "false-style", TRUE_STYLE |-> "true-style",
   GO_STYLE |-> "goStyle", ERROR_STYLE |-> "errorStyle",
   ONLY_ERROR |-> "only-error", BOOLEAN |-> "boolean"]

ReturnStyle == {RETURN_STYLES[k] : k \in DOMAIN RETURN_STYLES}

\* a returnStyle string that is none of the six values (the switch's default arm)
UnknownStyle == "other-style"

\* --------------------------------------------- user-supplied functions
\* ifTrue: (e) => e.code === 404   /   (e) => e.code === 401
\* reading .code of null or undefined throws a TypeError
IfTrueKinds == {"is404", "is401"}

ifTrue(kind, error) ==
  IF error \in {"null", "undefined"} THEN "throw"
  ELSE IF (kind = "is404" /\ error = "E404") \/ (kind = "is401" /\ error = "E401")
       THEN "true" ELSE "false"

\* doIt: a side effect that completes, or one that throws
DoItKinds == {"noop", "throws"}

ConditionalHandler == [ifTrue : IfTrueKinds, doIt : DoItKinds]

\* defaultHandler: the default (e) => { throw e; }, a logging handler that
\* returns undefined, or a handler that throws an error of its own
DefaultHandlerKinds == {"reraise", "log", "throws"}

defaultHandler(kind, error) ==
  CASE kind = "reraise" -> [kind |-> "throw", val |-> Plain(error)]
    [] kind = "log"     -> [kind |-> "return", val |-> Plain("undefined")]
    [] kind = "throws"  -> [kind |-> "throw", val |-> Plain("dhError")]

Chains == UNION {[1..n -> ConditionalHandler] : n \in 0..MaxChain}

AsyncHandlerConfig ==
  [returnStyle : ReturnStyle \cup {UnknownStyle},
   conditionalHandlerChain : Chains,
   defaultHandler : DefaultHandlerKinds]

\* ------------------------------------------------- completion records
\* how a call ends: it returns a value or throws one
Return(v) == [kind |-> "return", val |-> v]
Throw(v) == [kind |-> "throw", val |-> v]

\* one recorded call of a user-supplied function: which function, its position
\* in the chain (0 outside the chain), its argument and whether it threw
Call(fn, idx, arg, threw) == [fn |-> fn, idx |-> idx, arg |-> arg, threw |-> threw]

doIt(kind, error) ==
  IF kind = "throws" THEN Throw(Plain("doItError")) ELSE Return(Plain("undefined"))

\* a try whose catch lets the error through
SwallowNothing(completion) == completion

\* try { ... } catch (hErr) { }: whatever the block throws is dropped
Swallow(completion) ==
  IF completion.kind = "throw" THEN Return(Plain("undefined")) ELSE completion

\* --------------------------------------------------- createAsyncHandler
\* a success path that reports to defaultHandler before returning
OnSuccessNotifying(cfg, data) ==
  [calls |-> <<Call("defaultHandler", 0, data, FALSE)>>, out |-> Return(Plain(data))]

\* const data = await promise; switch (returnStyle) { ... }
OnSuccess(cfg, data) ==
  [calls |-> <<>>,
   out |-> CASE cfg.returnStyle = RETURN_STYLES.GO_STYLE    -> Return(Pair("null", data))
             [] cfg.returnStyle = RETURN_STYLES.ONLY_ERROR  -> Return(Plain("0"))
             [] cfg.returnStyle = RETURN_STYLES.BOOLEAN     -> Return(Plain("true"))
             [] OTHER                                       -> Return(Plain(data))]

RECURSIVE WalkChain(_, _, _)

\* the matching arm of the loop body without its break
OnMatchNoBreak(chain, k, error) ==
  LET act == Swallow(doIt(chain[k].doIt, error))
      rest == WalkChain(chain, k + 1, error)
  IN  [calls |-> <<Call("ifTrue", k, error, FALSE),
                   Call("doIt", k, error, chain[k].doIt = "throws")>> \o rest.calls,
       executedConditional |-> TRUE,
       completion |-> IF act.kind = "throw" THEN act ELSE rest.completion]

\* the matching arm with the flag set inside the try, after doIt
OnMatchFlagInsideTry(chain, k, error) ==
  LET act == doIt(chain[k].doIt, error)
  IN  [calls |-> <<Call("ifTrue", k, error, FALSE),
                   Call("doIt", k, error, chain[k].doIt = "throws")>>,
       executedConditional |-> act.kind # "throw",
       completion |-> Swallow(act)]

\* if (ifTrue(error)) { try { doIt(error); } catch (hErr) { } executedConditional = true; break; }
OnMatch(chain, k, error) ==
  LET act == Swallow(doIt(chain[k].doIt, error))
  IN  [calls |-> <<Call("ifTrue", k, error, FALSE),
                   Call("doIt", k, error, chain[k].doIt = "throws")>>,
       executedConditional |-> TRUE,
       completion |-> act]

\* for (const { ifTrue, doIt } of conditionalHandlerChain) { ... }, from handler k on
WalkChain(chain, k, error) ==
  IF k > Len(chain)
  THEN [calls |-> <<>>, executedConditional |-> FALSE,
        completion |-> Return(Plain("undefined"))]
  ELSE LET r == ifTrue(chain[k].ifTrue, error)
       IN  CASE r = "throw" ->
                  [calls |-> <<Call("ifTrue", k, error, TRUE)>>,
                   executedConditional |-> FALSE,
                   completion |-> Throw(Plain("TypeError"))]
             [] r = "true" -> OnMatch(chain, k, error)
             [] r = "false" ->
                  LET rest == WalkChain(chain, k + 1, error)
                  IN  [calls |-> <<Call("ifTrue", k, error, FALSE)>> \o rest.calls,
                       executedConditional |-> rest.executedConditional,
                       completion |-> rest.completion]

\* a shielding arm that forgets defaultHandler
ShieldedDefaultNever(cfg, error, executedConditional) ==
  [calls |-> <<>>, completion |-> Return(Plain("undefined"))]

\* if (!executedConditional) { try { defaultHandler(error); } catch (hErr) { } }
ShieldedDefault(cfg, error, executedConditional) ==
  IF executedConditional
  THEN [calls |-> <<>>, completion |-> Return(Plain("undefined"))]
  ELSE LET d == defaultHandler(cfg.defaultHandler, error)
       IN  [calls |-> <<Call("defaultHandler", 0, error, d.kind = "throw")>>,
            completion |-> Swallow(d)]

\* a default arm that returns defaultHandler(error) whether or not a handler matched
FallbackArmAlwaysDefault(cfg, error, executedConditional) ==
  LET d == defaultHandler(cfg.defaultHandler, error)
  IN  [calls |-> <<Call("defaultHandler", 0, error, d.kind = "throw")>>, out |-> d]

\* default: if (!executedConditional) return defaultHandler(error); throw error;
FallbackArm(cfg, error, executedConditional) ==
  IF executedConditional
  THEN [calls |-> <<>>, out |-> Throw(Plain(error))]
  ELSE LET d == defaultHandler(cfg.defaultHandler, error)
       IN  [calls |-> <<Call("defaultHandler", 0, error, d.kind = "throw")>>,
            out |-> d]

\* switch (returnStyle) { ... } of the catch block
FailureSwitch(cfg, error, executedConditional) ==
  CASE cfg.returnStyle = RETURN_STYLES.GO_STYLE ->
         [calls |-> <<>>, out |-> Return(Pair(error, "null"))]
    [] cfg.returnStyle = RETURN_STYLES.ONLY_ERROR ->
         [calls |-> <<>>, out |-> Return(Plain("1"))]
    [] cfg.returnStyle = RETURN_STYLES.BOOLEAN ->
         [calls |-> <<>>, out |-> Return(Plain("false"))]
    [] cfg.returnStyle \in {RETURN_STYLES.FALSE_STYLE, RETURN_STYLES.TRUE_STYLE} ->
         LET d == ShieldedDefault(cfg, error, executedConditional)
         IN  [calls |-> d.calls,
              out |-> IF d.completion.kind = "throw" THEN d.completion
                      ELSE IF cfg.returnStyle = RETURN_STYLES.FALSE_STYLE
                           THEN Return(Plain("false")) ELSE Return(Plain("true"))]
    [] cfg.returnStyle = RETURN_STYLES.ERROR_STYLE ->
         [calls |-> <<>>, out |-> Return(Plain(error))]
    [] OTHER -> FallbackArm(cfg, error, executedConditional)

\* catch (error) { ... }
OnFailure(cfg, error) ==
  LET w == WalkChain(cfg.conditionalHandlerChain, 1, error)
  IN  IF w.completion.kind = "throw"
      THEN [calls |-> w.calls, out |-> w.completion]
      ELSE LET s == FailureSwitch(cfg, error, w.executedConditional)
           IN  [calls |-> w.calls \o s.calls, out |-> s.out]

\* the part of the async function that runs once the awaited promise has settled
handler(cfg, promise) ==
  IF promise.status = "fulfilled"
  THEN OnSuccess(cfg, promise.value)
  ELSE OnFailure(cfg, promise.value)

\* ------------------------------------------------------- derivatives
\* const internalHandler = createAsyncHandler({ returnStyle: RETURN_STYLES.GO_STYLE });
internalHandler ==
  [returnStyle |-> RETURN_STYLES.GO_STYLE,
   conditionalHandlerChain |-> <<>>,
   defaultHandler |-> "reraise"]

\* LogEntry: absent, a message string, or { fn, params } whose fn completes or throws
LogEntry == {"undefined", "msg", "fn", "fnThrows"}

\* LogConfig: absent, a message string, or { error?, success? }
NoLogConfig == [kind |-> "undefined", error |-> "undefined", success |-> "undefined"]

LogConfig ==
  {NoLogConfig, [kind |-> "string", error |-> "undefined", success |-> "undefined"]}
    \cup [kind : {"object"}, error : LogEntry, success : LogEntry]

\* function executeAction(entry, method, payload)
executeAction(entry, method, payload) ==
  CASE entry = "undefined" ->
         [calls |-> <<>>, completion |-> Return(Plain("undefined"))]
    [] entry \in {"fn", "fnThrows"} ->
         [calls |-> <<Call("fn", 0, "params", entry = "fnThrows")>>,
          completion |-> IF entry = "fnThrows" THEN Throw(Plain("fnError"))
                         ELSE Return(Plain("undefined"))]
    [] entry = "msg" ->
         [calls |-> <<Call("console." \o method, 0,
                           IF Truthy(payload) THEN payload ELSE "''", FALSE)>>,
          completion |-> Return(Plain("undefined"))]

\* the calls of r, an fn call named after the field of logConfig that holds the
\* entry (config.error.fn / config.success.fn)
EntryOf(field, r) ==
  [calls |-> [n \in DOMAIN r.calls |->
                IF r.calls[n].fn = "fn"
                THEN [r.calls[n] EXCEPT !.fn = field \o ".fn"] ELSE r.calls[n]],
   completion |-> r.completion]

\* function handleLog(config, type, payload)
handleLog(logConfig, type, payload) ==
  CASE logConfig.kind = "undefined" ->
         [calls |-> <<>>, completion |-> Return(Plain("undefined"))]
    [] logConfig.kind = "string" ->
         IF type = "error" THEN executeAction("msg", "error", payload)
         ELSE [calls |-> <<>>, completion |-> Return(Plain("undefined"))]
    [] logConfig.kind = "object" ->
         IF type = "error" /\ logConfig.error # "undefined"
         THEN EntryOf("error", executeAction(logConfig.error, "error", payload))
         ELSE IF type = "success" /\ logConfig.success # "undefined"
              THEN EntryOf("success", executeAction(logConfig.success, "log", "undefined"))
              ELSE [calls |-> <<>>, completion |-> Return(Plain("undefined"))]

\* handleLog(...); return result;
LogThenReturn(log, result) ==
  [calls |-> log.calls,
   out |-> IF log.completion.kind = "throw" THEN log.completion ELSE Return(result)]

\* the part of valueOf that runs once internalHandler(promise) has settled with h
valueOf(h, logConfig) ==
  IF h.kind = "throw" THEN [calls |-> <<>>, out |-> h]
  ELSE LET err == h.val[2]
           data == h.val[3]
       IN  IF Truthy(err)
           THEN LogThenReturn(handleLog(logConfig, "error", err), Plain("false"))
           ELSE LogThenReturn(handleLog(logConfig, "success", "undefined"), Plain(data))

\* the part of isSuccess that runs once internalHandler(promise) has settled with h
isSuccess(h, logConfig) ==
  IF h.kind = "throw" THEN [calls |-> <<>>, out |-> h]
  ELSE LET err == h.val[2]
       IN  IF Truthy(err)
           THEN LogThenReturn(handleLog(logConfig, "error", err), Plain("false"))
           ELSE LogThenReturn(handleLog(logConfig, "success", "undefined"), Plain("true"))

\* the part of toResult that runs once internalHandler(promise) has settled with h
toResult(h, logConfig) ==
  IF h.kind = "throw" THEN [calls |-> <<>>, out |-> h]
  ELSE LET err == h.val[2]
           data == h.val[3]
       IN  IF Truthy(err)
           THEN LogThenReturn(handleLog(logConfig, "error", err),
                              ResultObject("false", "null", err))
           ELSE LogThenReturn(handleLog(logConfig, "success", "undefined"),
                              ResultObject("true", data, "null"))

Derivatives == {"valueOf", "isSuccess", "toResult"}

derivative(api, h, logConfig) ==
  CASE api = "valueOf"   -> valueOf(h, logConfig)
    [] api = "isSuccess" -> isSuccess(h, logConfig)
    [] api = "toResult"  -> toResult(h, logConfig)

\* ------------------------------------------------------------ state
\* config: the configuration captured by the adapter instance under study
\*         (internalHandler's when the derivatives are the entry points).
\* inv[i]: one invocation: its entry point (api), the derivative's logConfig,
\*         where it is (pc), the wrapped promise, internalHandler's settlement
\*         (hres), the user-supplied functions called so far (calls) and how
\*         the invocation ended (out).
Pending == [status |-> "pending", value |-> "undefined"]
NoOutput == [kind |-> "none", val |-> Plain("undefined")]

Idle ==
  [api |-> "none", logConfig |-> NoLogConfig, pc |-> "idle", promise |-> Pending,
   hres |-> NoOutput, calls |-> <<>>, out |-> NoOutput]

SingleCall == {"call"}

Init ==
  /\ config \in AsyncHandlerConfig
  /\ inv = [i \in SingleCall |-> Idle]

\* handler(promise) / valueOf(promise, logConfig) / ...: runs up to the await
Invoke(i, api, logConfig) ==
  /\ inv[i].pc = "idle"
  /\ api \in Derivatives => config = internalHandler
  /\ api = "handler" => logConfig = NoLogConfig
  /\ inv' = [inv EXCEPT ![i].api = api, ![i].logConfig = logConfig,
                        ![i].pc = "awaitPromise"]
  /\ UNCHANGED config

\* the wrapped operation resolves with value v
Resolve(i, v) ==
  /\ inv[i].pc = "awaitPromise"
  /\ inv[i].promise.status = "pending"
  /\ inv' = [inv EXCEPT ![i].promise = [status |-> "fulfilled", value |-> v]]
  /\ UNCHANGED config

\* the wrapped operation rejects with reason e
Reject(i, e) ==
  /\ inv[i].pc = "awaitPromise"
  /\ inv[i].promise.status = "pending"
  /\ inv' = [inv EXCEPT ![i].promise = [status |-> "rejected", value |-> e]]
  /\ UNCHANGED config

\* a resumption that also gives up on an operation that has not settled
HandlerResumeOrTimeout(i) ==
  /\ inv[i].pc = "awaitPromise"
  /\ LET r == IF inv[i].promise.status = "pending"
              THEN [calls |-> <<>>, out |-> Throw(Plain("timeout"))]
              ELSE handler(config, inv[i].promise)
     IN  inv' = IF inv[i].api = "handler"
                THEN [inv EXCEPT ![i].calls = r.calls, ![i].out = r.out,
                                 ![i].pc = "done"]
                ELSE [inv EXCEPT ![i].calls = r.calls, ![i].hres = r.out,
                                 ![i].pc = "awaitHandler"]
  /\ UNCHANGED config

\* a resumption whose executedConditional flag lives in the closure, shared by
\* all invocations and never reset
HandlerResumeSharedFlag(i) ==
  /\ inv[i].pc = "awaitPromise"
  /\ inv[i].promise.status # "pending"
  /\ LET stale == \E j \in DOMAIN inv \ {i} :
                    \E n \in 1..Len(inv[j].calls) : inv[j].calls[n].fn = "doIt"
         w == WalkChain(config.conditionalHandlerChain, 1, inv[i].promise.value)
         f == FailureSwitch(config, inv[i].promise.value,
                            w.executedConditional \/ stale)
         r == IF inv[i].promise.status = "fulfilled" \/ w.completion.kind = "throw"
              THEN handler(config, inv[i].promise)
              ELSE [calls |-> w.calls \o f.calls, out |-> f.out]
     IN  inv' = IF inv[i].api = "handler"
                THEN [inv EXCEPT ![i].calls = r.calls, ![i].out = r.out,
                                 ![i].pc = "done"]
                ELSE [inv EXCEPT ![i].calls = r.calls, ![i].hres = r.out,
                                 ![i].pc = "awaitHandler"]
  /\ UNCHANGED config

\* the adapter's async function resumes after `await promise` and runs to its end
HandlerResume(i) ==
  /\ inv[i].pc = "awaitPromise"
  /\ inv[i].promise.status # "pending"
  /\ LET r == handler(config, inv[i].promise)
     IN  inv' = IF inv[i].api = "handler"
                THEN [inv EXCEPT ![i].calls = r.calls, ![i].out = r.out,
                                 ![i].pc = "done"]
                ELSE [inv EXCEPT ![i].calls = r.calls, ![i].hres = r.out,
                                 ![i].pc = "awaitHandler"]
  /\ UNCHANGED config

\* the derivative resumes after `await internalHandler(promise)` and runs to its end
DerivativeResume(i) ==
  /\ inv[i].pc = "awaitHandler"
  /\ LET r == derivative(inv[i].api, inv[i].hres, inv[i].logConfig)
     IN  inv' = [inv EXCEPT ![i].calls = inv[i].calls \o r.calls, ![i].out = r.out,
                            ![i].pc = "done"]
  /\ UNCHANGED config

Next ==
  \/ \E i \in DOMAIN inv, api \in {"handler"} \cup Derivatives, lc \in LogConfig :
       Invoke(i, api, lc)
  \/ \E i \in DOMAIN inv, v \in Values : Resolve(i, v)
  \/ \E i \in DOMAIN inv, e \in Reasons : Reject(i, e)
  \/ \E i \in DOMAIN inv : HandlerResume(i)
  \/ \E i \in DOMAIN inv : DerivativeResume(i)

Spec == Init /\ [][Next]_vars

\* --------------------------------------------- concurrent invocations
\* NumInv invocations of one adapter instance, in flight together; their
\* operations settle in any order.
NumInv == 2

ConcConfigs ==
  [returnStyle : {RETURN_STYLES.FALSE_STYLE, RETURN_STYLES.GO_STYLE, UnknownStyle},
   conditionalHandlerChain : {<<>>, <<[ifTrue |-> "is404", doIt |-> "noop"]>>},
   defaultHandler : {"reraise", "log"}]

ConcValues == {"obj"}
ConcReasons == {"E404", "E500"}
ConcLogConfigs == {[kind |-> "string", error |-> "undefined", success |-> "undefined"]}

InitConc ==
  /\ config \in ConcConfigs
  /\ inv = [i \in 1..NumInv |-> Idle]

NextConc ==
  \/ \E i \in DOMAIN inv : Invoke(i, "handler", NoLogConfig)
  \/ \E i \in DOMAIN inv, api \in Derivatives, lc \in ConcLogConfigs : Invoke(i, api, lc)
  \/ \E i \in DOMAIN inv, v \in ConcValues : Resolve(i, v)
  \/ \E i \in DOMAIN inv, e \in ConcReasons : Reject(i, e)
  \/ \E i \in DOMAIN inv : HandlerResume(i)
  \/ \E i \in DOMAIN inv : DerivativeResume(i)

SpecConc == InitConc /\ [][NextConc]_vars

\* the microtask queue runs every continuation whose awaited promise has settled
SpecFair ==
  /\ SpecConc
  /\ \A i \in 1..NumInv : WF_vars(HandlerResume(i)) /\ WF_vars(DerivativeResume(i))

\* =================================================================
\* Properties
\* =================================================================
Done(i) == inv[i].pc = "done"
Direct(i) == inv[i].api = "handler"
Resolved(i) == inv[i].promise.status = "fulfilled"
Rejected(i) == inv[i].promise.status = "rejected"
Settlement(i) == inv[i].promise.value

\* positions in the call log of invocation i that are calls of fn
CallsOf(i, fn) == {n \in 1..Len(inv[i].calls) : inv[i].calls[n].fn = fn}

\* the output the documentation gives each recognised style on failure
FailureShape(style, e) ==
  CASE style = "goStyle"     -> Pair(e, "null")
    [] style = "only-error"  -> Plain("1")
    [] style = "boolean"     -> Plain("false")
    [] style = "false-style" -> Plain("false")
    [] style = "true-style"  -> Plain("true")
    [] style = "errorStyle"  -> Plain(e)

\* C1: a goStyle adapter returns (null, v) for every operation that resolves
\* with v and (e, null) for every operation that rejects with e.
C1_GoStylePairs ==
  \A i \in DOMAIN inv :
    (Done(i) /\ Direct(i) /\ config.returnStyle = "goStyle") =>
      /\ Resolved(i) => inv[i].out = Return(Pair("null", Settlement(i)))
      /\ Rejected(i) => inv[i].out = Return(Pair(Settlement(i), "null"))

\* C2: a false-style / true-style adapter returns the value unchanged on
\* success and the fixed boolean (false / true) on every failure.
C2_ShieldingStyles ==
  \A i \in DOMAIN inv :
    (Done(i) /\ Direct(i) /\ config.returnStyle \in {"false-style", "true-style"}) =>
      /\ Resolved(i) => inv[i].out = Return(Plain(Settlement(i)))
      /\ Rejected(i) =>
           inv[i].out = Return(Plain(IF config.returnStyle = "false-style"
                                     THEN "false" ELSE "true"))

\* C3: only-error returns 0 on success and 1 on failure, boolean returns true
\* on success and false on failure, whatever the value or the reason.
C3_StatusStyles ==
  \A i \in DOMAIN inv :
    (Done(i) /\ Direct(i)) =>
      /\ config.returnStyle = "only-error" =>
           /\ Resolved(i) => inv[i].out = Return(Plain("0"))
           /\ Rejected(i) => inv[i].out = Return(Plain("1"))
      /\ config.returnStyle = "boolean" =>
           /\ Resolved(i) => inv[i].out = Return(Plain("true"))
           /\ Rejected(i) => inv[i].out = Return(Plain("false"))

\* what the k-th predicate of the configured chain answers for reason e
Answer(k, e) == ifTrue(config.conditionalHandlerChain[k].ifTrue, e)

\* C4: on a rejected operation, under every return style, the predicates are
\* called in configured order, each with the reason; an action runs only for the
\* first handler whose predicate returned true, with the reason, right after
\* that predicate; nothing of a later handler is evaluated; at most one action
\* runs; and once a handler matched, defaultHandler is not called.
C4_FirstMatchWins ==
  \A i \in DOMAIN inv :
    (Done(i) /\ Direct(i) /\ Rejected(i)) =>
      LET log == inv[i].calls
          e == Settlement(i)
          preds == CallsOf(i, "ifTrue")
          acts == CallsOf(i, "doIt")
          m == Cardinality(preds)
      IN  /\ m <= Len(config.conditionalHandlerChain)
          /\ \A n \in 1..m : log[n].fn = "ifTrue" /\ log[n].idx = n /\ log[n].arg = e
          /\ \A n \in 1..m : n < m => Answer(n, e) = "false"
          /\ m < Len(config.conditionalHandlerChain) => m > 0 /\ Answer(m, e) # "false"
          /\ Cardinality(acts) <= 1
          /\ (m > 0 /\ Answer(m, e) = "true") =>
               /\ acts = {m + 1}
               /\ log[m + 1].idx = m /\ log[m + 1].arg = e
               /\ CallsOf(i, "defaultHandler") = {}
          /\ (m = 0 \/ Answer(m, e) # "true") => acts = {}

\* C4 witness: a chain [H1, H2, H3] in which H2 and H3 both match the reason:
\* H1's and H2's predicates and H2's action ran, nothing else.
C4_Witness ==
  \E i \in DOMAIN inv :
    /\ Done(i) /\ Direct(i) /\ Rejected(i)
    /\ Len(config.conditionalHandlerChain) = 3
    /\ Answer(1, Settlement(i)) = "false"
    /\ Answer(2, Settlement(i)) = "true"
    /\ Answer(3, Settlement(i)) = "true"
    /\ config.returnStyle = "false-style"
    /\ [n \in 1..Len(inv[i].calls) |-> <<inv[i].calls[n].fn, inv[i].calls[n].idx>>]
         = <<(<<"ifTrue", 1>>), (<<"ifTrue", 2>>), (<<"doIt", 2>>)>>

\* every predicate of the configured chain returns false for reason e
NoneMatches(e) ==
  \A k \in 1..Len(config.conditionalHandlerChain) : Answer(k, e) = "false"

\* defaultHandler was called exactly once in invocation i, with the reason
DefaultRanOnce(i) ==
  /\ Cardinality(CallsOf(i, "defaultHandler")) = 1
  /\ \A n \in CallsOf(i, "defaultHandler") : inv[i].calls[n].arg = Settlement(i)

C6_NoHandlerOnSuccess ==
  \A i \in DOMAIN inv :
    (inv[i].pc \in {"awaitHandler", "done"} /\ Resolved(i)) =>
      /\ CallsOf(i, "ifTrue") = {}
      /\ CallsOf(i, "doIt") = {}
      /\ CallsOf(i, "defaultHandler") = {}

\* C6 witness: an adapter with an unrecognised style and a full chain has
\* returned the value of a resolved operation.
C6_Witness ==
  \E i \in DOMAIN inv :
    /\ Done(i) /\ Direct(i) /\ Resolved(i)
    /\ config.returnStyle = UnknownStyle
    /\ Len(config.conditionalHandlerChain) = MaxChain
    /\ inv[i].out = Return(Plain(Settlement(i)))

\* an action or the default handler threw during invocation i
HandlerThrew(i) ==
  \E n \in CallsOf(i, "doIt") \cup CallsOf(i, "defaultHandler") : inv[i].calls[n].threw

\* the default handler threw during invocation i
DefaultThrew(i) ==
  \E n \in CallsOf(i, "defaultHandler") : inv[i].calls[n].threw

\* C7 as stated: if an action or the default handler throws on a rejected
\* operation, the invocation does not end with that throw, and under a
\* recognised style it returns the style's output; for every returnStyle.
C7_HandlerThrowsSwallowed ==
  \A i \in DOMAIN inv :
    (Done(i) /\ Direct(i) /\ Rejected(i) /\ HandlerThrew(i)) =>
      /\ config.returnStyle \in ReturnStyle =>
           inv[i].out = Return(FailureShape(config.returnStyle, Settlement(i)))
      /\ config.returnStyle \notin ReturnStyle =>
           ~(DefaultThrew(i) /\ inv[i].out.kind = "throw")

\* C7 amended: under each of the six recognised styles, if an action or the
\* default handler throws on a rejected operation, the invocation returns the
\* style's output. Under an unrecognised style a throwing action is swallowed
\* (the invocation rejects with the reason itself), and a throw of the default
\* handler is the invocation's own outcome.
C7_HandlerThrowsSwallowedRecognised ==
  \A i \in DOMAIN inv :
    (Done(i) /\ Direct(i) /\ Rejected(i) /\ HandlerThrew(i)) =>
      /\ config.returnStyle \in ReturnStyle =>
           inv[i].out = Return(FailureShape(config.returnStyle, Settlement(i)))
      /\ (config.returnStyle \notin ReturnStyle /\ ~DefaultThrew(i)) =>
           inv[i].out = Throw(Plain(Settlement(i)))
      /\ (config.returnStyle \notin ReturnStyle /\ DefaultThrew(i)) =>
           inv[i].out = defaultHandler(config.defaultHandler, Settlement(i))

\* C7 witness: a true-style adapter whose default handler threw an error of
\* its own has returned true.
C7_Witness ==
  \E i \in DOMAIN inv :
    /\ Done(i) /\ Direct(i) /\ Rejected(i)
    /\ config.returnStyle = "true-style"
    /\ config.defaultHandler = "throws"
    /\ DefaultThrew(i)
    /\ inv[i].out = Return(Plain("true"))

\* C8: valueOf(operation) returns the value when the operation resolves and
\* false when it rejects, whatever the reason (falsy reasons included).
C8_ValueOf ==
  \A i \in DOMAIN inv :
    (Done(i) /\ inv[i].api = "valueOf" /\ inv[i].logConfig = NoLogConfig) =>
      /\ Resolved(i) => inv[i].out = Return(Plain(Settlement(i)))
      /\ Rejected(i) => inv[i].out = Return(Plain("false"))

\* C9: isSuccess(operation) returns true exactly when the operation resolved
\* and false exactly when it rejected.
C9_IsSuccess ==
  \A i \in DOMAIN inv :
    (Done(i) /\ inv[i].api = "isSuccess" /\ inv[i].logConfig = NoLogConfig) =>
      /\ Resolved(i) => inv[i].out = Return(Plain("true"))
      /\ Rejected(i) => inv[i].out = Return(Plain("false"))

\* C10: toResult(operation) returns {success: true, data: value, error: null}
\* when the operation resolves and {success: false, data: null, error: reason}
\* when it rejects.
C10_ToResult ==
  \A i \in DOMAIN inv :
    (Done(i) /\ inv[i].api = "toResult" /\ inv[i].logConfig = NoLogConfig) =>
      /\ Resolved(i) => inv[i].out = Return(ResultObject("true", Settlement(i), "null"))
      /\ Rejected(i) => inv[i].out = Return(ResultObject("false", "null", Settlement(i)))

\* a configured log action threw during invocation i
LogActionThrew(i) ==
  \E n \in CallsOf(i, "error.fn") \cup CallsOf(i, "success.fn") : inv[i].calls[n].threw

\* C11: if the configured success or error log action throws, valueOf,
\* isSuccess and toResult still complete with the result they return without
\* logging, and never reject.
C11_LoggingFailuresSwallowed ==
  \A i \in DOMAIN inv :
    (Done(i) /\ inv[i].api \in Derivatives /\ LogActionThrew(i)) =>
      inv[i].out = derivative(inv[i].api, inv[i].hres, NoLogConfig).out

\* how often the error entry / the success entry of logConfig ran in invocation i
ErrorEntryRuns(i) == Cardinality(CallsOf(i, "error.fn") \cup CallsOf(i, "console.error"))
SuccessEntryRuns(i) == Cardinality(CallsOf(i, "success.fn") \cup CallsOf(i, "console.log"))

\* logConfig holds an error entry / a success entry
HasErrorEntry(lc) == lc.kind = "string" \/ (lc.kind = "object" /\ lc.error # "undefined")
HasSuccessEntry(lc) == lc.kind = "object" /\ lc.success # "undefined"

\* C12: in every derivative call the log action matches the outcome: on a
\* rejection the error entry (if configured) runs exactly once and the success
\* entry never, on a resolution the success entry (if configured) runs exactly
\* once and the error entry never; a bare string is an error entry only, whose
\* one error-sink call carries the failure reason.
C12_LogMatchesOutcome ==
  \A i \in DOMAIN inv :
    (Done(i) /\ inv[i].api \in Derivatives) =>
      /\ Rejected(i) =>
           /\ ErrorEntryRuns(i) = IF HasErrorEntry(inv[i].logConfig) THEN 1 ELSE 0
           /\ SuccessEntryRuns(i) = 0
           /\ \A n \in CallsOf(i, "console.error") : inv[i].calls[n].arg = Settlement(i)
      /\ Resolved(i) =>
           /\ SuccessEntryRuns(i) = IF HasSuccessEntry(inv[i].logConfig) THEN 1 ELSE 0
           /\ ErrorEntryRuns(i) = 0

\* a predicate threw during invocation i
PredicateThrew(i) == \E n \in CallsOf(i, "ifTrue") : inv[i].calls[n].threw

\* C13: a predicate that throws while it is evaluated on the reason is
\* swallowed: the throw does not reach the caller, and the invocation produces
\* the output of its returnStyle.
C13_PredicateThrowsSwallowed ==
  \A i \in DOMAIN inv :
    (Done(i) /\ Direct(i) /\ Rejected(i) /\ PredicateThrew(i)) =>
      /\ inv[i].out # Throw(Plain("TypeError"))
      /\ config.returnStyle \in ReturnStyle =>
           inv[i].out = Return(FailureShape(config.returnStyle, Settlement(i)))

\* some predicate of the configured chain returns true for reason e, all
\* predicates before it having returned false
SomeMatches(e) ==
  \E k \in 1..Len(config.conditionalHandlerChain) :
    /\ Answer(k, e) = "true"
    /\ \A j \in 1..(k - 1) : Answer(j, e) = "false"

C15_ErrorStyle ==
  \A i \in DOMAIN inv :
    (Done(i) /\ Direct(i) /\ config.returnStyle = "errorStyle") =>
      /\ Resolved(i) => inv[i].out = Return(Plain(Settlement(i)))
      /\ Rejected(i) => inv[i].out = Return(Plain(Settlement(i)))
      /\ CallsOf(i, "defaultHandler") = {}

\* C18: when the action of the handler that matched throws, the handler still
\* counts as matched: defaultHandler is not called, no later handler is tried
\* (the throwing action is the last call made), and under an unrecognised
\* returnStyle the invocation rejects with the reason e, not with the action's
\* error.
C18_ThrowingActionStillMatched ==
  \A i \in DOMAIN inv :
    (Done(i) /\ Direct(i) /\ Rejected(i)) =>
      \A n \in CallsOf(i, "doIt") :
        inv[i].calls[n].threw =>
          /\ CallsOf(i, "defaultHandler") = {}
          /\ n = Len(inv[i].calls)
          /\ \A p \in CallsOf(i, "ifTrue") : inv[i].calls[p].idx <= inv[i].calls[n].idx
          /\ config.returnStyle \notin ReturnStyle =>
               inv[i].out = Throw(Plain(Settlement(i)))

\* C18 witness: unrecognised style, the first of three handlers matched and
\* its action threw, the later handlers would match too: the invocation
\* rejected with the reason after two calls.
C18_Witness ==
  \E i \in DOMAIN inv :
    /\ Done(i) /\ Direct(i) /\ Rejected(i)
    /\ config.returnStyle = UnknownStyle
    /\ Len(config.conditionalHandlerChain) = 3
    /\ \A k \in 1..3 : Answer(k, Settlement(i)) = "true"
    /\ config.conditionalHandlerChain[1].doIt = "throws"
    /\ Len(inv[i].calls) = 2
    /\ inv[i].calls[2].fn = "doIt" /\ inv[i].calls[2].threw
    /\ inv[i].out = Throw(Plain(Settlement(i)))

\* what invocation i does when it runs alone on its own operation's outcome
Alone(i) ==
  LET h == handler(config, inv[i].promise)
  IN  IF inv[i].api = "handler" THEN h
      ELSE LET d == derivative(inv[i].api, h.out, inv[i].logConfig)
           IN  [calls |-> h.calls \o d.calls, out |-> d.out]

\* C16: concurrent invocations of one adapter instance (the goStyle adapter
\* shared by the derivatives included) do not interfere: under every
\* interleaving each finished invocation has the output and the handler calls
\* it has when run alone on its own outcome, every step changes one invocation
\* only, and the captured configuration never changes.
C16_NoInterference ==
  /\ [](\A i \in DOMAIN inv :
          Done(i) => inv[i].out = Alone(i).out /\ inv[i].calls = Alone(i).calls)
  /\ [][/\ config' = config
        /\ \E i \in DOMAIN inv : \A j \in DOMAIN inv \ {i} : inv'[j] = inv[j]]_vars

\* C16 witness: two invocations of a false-style adapter are done; the first
\* was handled by the 404 handler, the second, settled while the first was in
\* flight, went to the default handler.
C16_Witness ==
  /\ DOMAIN inv = 1..NumInv
  /\ config.returnStyle = "false-style"
  /\ Done(1) /\ Direct(1) /\ Settlement(1) = "E404" /\ CallsOf(1, "doIt") # {}
  /\ Done(2) /\ Direct(2) /\ Settlement(2) = "E500"
  /\ CallsOf(2, "defaultHandler") # {}
  /\ inv[1].out = Return(Plain("false")) /\ inv[2].out = Return(Plain("false"))

\* invocation i is suspended on its operation, which has not settled
Suspended(i) == inv[i].pc = "awaitPromise" /\ inv[i].promise.status = "pending"

\* the operation of invocation i has settled and the adapter has not resumed yet
Settled(i) == inv[i].pc = "awaitPromise" /\ inv[i].promise.status # "pending"

====
